---- MODULE Spec2Model ----
(***************************************************************************)
(* Model of src/transcribe.py: the interactive prompt, transcribe_audio    *)
(* (model and audio checks, wave.open, format validation, the chunked feed *)
(* loop with its progress counters, FinalResult, close, the two output     *)
(* writes) and the final wait for Enter.                                   *)
(*                                                                         *)
(* The recognizer (vosk) and the file system are the environment: the      *)
(* outcome of AcceptWaveform, the JSON it returns, and the success of      *)
(* every open/write are chosen nondeterministically.                       *)
(* The audio file is a well-formed WAV container: its data chunk holds     *)
(* exactly nframes * nchannels * sampwidth bytes.                          *)
(***************************************************************************)
EXTENDS Integers, Sequences, FiniteSets, TLC

\* ---- bounds of the model ----
MaxChunks == 3          \* longest stream, in whole chunks of chunk_size frames
MaxTextLen == 1         \* longest "text" the recognizer returns, in characters

\* ---- program constants ----
chunk_size == 4000      \* transcribe.py:66

Channels == {1, 2}
SampWidths == {1, 2}
FrameRates == {8000, 16000, 44100}
Alphabet == {"a"}
NL == "\n"

\* Frame counts of the audio files fed to the model: empty, one frame,
\* one frame short of a chunk, whole chunks, whole chunks plus a tail.
FrameCounts ==
    {k * chunk_size + r : k \in 0..(MaxChunks - 1), r \in {0, 1, chunk_size - 1}}
        \cup {MaxChunks * chunk_size}

Texts == UNION {[1..n -> Alphabet] : n \in 0..MaxTextLen}

\* The dictionaries json.loads can return for a recognizer result: with a
\* "text" field (possibly empty) or without one.
RecognizerOutputs ==
    {[hasText |-> TRUE, text |-> t] : t \in Texts}
        \cup {[hasText |-> FALSE, text |-> <<>>]}

VARIABLES
    pc,                 \* position in the script
    nchannels, sampwidth, framerate, nframes,   \* header of the audio file
    wf,                 \* the Wave_read handle: "none" | "open" | "closed"
    closeCount,         \* number of wf.close() calls executed
    modelLoaded, recognizerCreated,
    soundpos,           \* byte offset of the next unread byte of the data chunk
    data,               \* the chunk returned by the last readframes
    reads,              \* every chunk returned by readframes, in order
    fed,                \* every chunk passed to AcceptWaveform, in order
    total_frames, frames_processed,
    completed,          \* progress task: total amount advanced
    results,            \* the list of result dictionaries
    produced,           \* number of results the recognizer has produced
    acceptError,        \* AcceptWaveform has raised
    jsonFile, txtFile,  \* output.json / output.txt
    jsonAttempted, txtAttempted,
    saveErrors,         \* "Error saving transcription" messages printed
    exitStatus          \* "running" | "exit0" | "exit1" | "exception"

vars == <<pc, nchannels, sampwidth, framerate, nframes, wf, closeCount,
          modelLoaded, recognizerCreated, soundpos, data, reads, fed,
          total_frames, frames_processed, completed, results, produced,
          acceptError, jsonFile, txtFile, jsonAttempted, txtAttempted,
          saveErrors, exitStatus>>

header == <<nchannels, sampwidth, framerate, nframes>>
audio == <<wf, closeCount, soundpos, data, reads>>
engine == <<modelLoaded, recognizerCreated, fed, results, produced, acceptError>>
progress == <<total_frames, frames_processed, completed>>
outputs == <<jsonFile, txtFile, jsonAttempted, txtAttempted, saveErrors>>

NoChunk == [start |-> 0, len |-> 0]
Untouched == [status |-> "untouched", content |-> <<>>]

\* ---- pure helpers ----

\* wave.Wave_read: bytes per frame
FrameSize(ch, sw) == ch * sw

\* the condition of line 53, negated: the format the script accepts
ValidFormatAny(ch, sw, fr) == ch = 1 \/ sw = 2 \/ fr \in {8000, 16000}
ValidFormat(ch, sw, fr) == ch = 1 /\ sw = 2 /\ fr \in {8000, 16000}

\* wf.readframes(n): up to n frames, i.e. n * framesize bytes, from pos
readframesBytes(pos, n, fsize, dataLen) ==
    [start |-> pos, len |-> IF n < dataLen - pos THEN n ELSE dataLen - pos]
readframesWholeOnly(pos, n, fsize, dataLen) ==
    [start |-> pos, len |-> IF n * fsize <= dataLen - pos THEN n * fsize ELSE 0]
readframes(pos, n, fsize, dataLen) ==
    [start |-> pos,
     len |-> IF n * fsize < dataLen - pos THEN n * fsize ELSE dataLen - pos]

\* results.append(json.loads(...)), lines 94 and 115
StoreResultFront(rs, r) == <<r>> \o rs
StoreResult(rs, r) == Append(rs, r)

\* `if "text" in result`, line 133
HasTextFieldNonEmpty(r) == r.hasText /\ r.text # <<>>
HasTextField(r) == r.hasText

\* json.dump(results, f): the array of objects, in list order
JsonDump(rs) == [i \in 1..Len(rs) |-> [hasText |-> rs[i].hasText, text |-> rs[i].text]]

\* the lines written by the loop of lines 132-134, each text + "\n"
RECURSIVE TextLines(_)
TextLines(rs) ==
    IF rs = <<>> THEN <<>>
    ELSE (IF HasTextField(Head(rs)) THEN <<Head(rs).text \o <<NL>>>> ELSE <<>>)
             \o TextLines(Tail(rs))

RECURSIVE Flatten(_)
Flatten(ss) == IF ss = <<>> THEN <<>> ELSE Head(ss) \o Flatten(Tail(ss))

\* the characters output.txt holds after lines 131-134
TxtContentDropLast(rs) ==
    Flatten(TextLines(IF rs = <<>> THEN rs ELSE SubSeq(rs, 1, Len(rs) - 1)))
TxtContent(rs) == Flatten(TextLines(rs))

\* ---- initial state ----
Init ==
    /\ pc = "prompt"
    /\ nchannels \in Channels
    /\ sampwidth \in SampWidths
    /\ framerate \in FrameRates
    /\ nframes \in FrameCounts
    /\ wf = "none"
    /\ closeCount = 0
    /\ modelLoaded = FALSE
    /\ recognizerCreated = FALSE
    /\ soundpos = 0
    /\ data = NoChunk
    /\ reads = <<>>
    /\ fed = <<>>
    /\ total_frames = 0
    /\ frames_processed = 0
    /\ completed = 0
    /\ results = <<>>
    /\ produced = 0
    /\ acceptError = FALSE
    /\ jsonFile = Untouched
    /\ txtFile = Untouched
    /\ jsonAttempted = FALSE
    /\ txtAttempted = FALSE
    /\ saveErrors = 0
    /\ exitStatus = "running"

\* ---- actions ----

\* lines 149-154: ask for a path until it exists
PromptAudio ==
    /\ pc = "prompt"
    /\ \E exists \in BOOLEAN :
          pc' = IF exists THEN "check_model" ELSE "prompt"
    /\ UNCHANGED <<header, audio, engine, progress, outputs, exitStatus>>

\* lines 26-29
CheckModel ==
    /\ pc = "check_model"
    /\ \E exists \in BOOLEAN :
          IF exists
          THEN pc' = "load_model" /\ UNCHANGED exitStatus
          ELSE pc' = "exit1" /\ exitStatus' = "exit1"
    /\ UNCHANGED <<header, audio, engine, progress, outputs>>

\* lines 32-34
LoadModel ==
    /\ pc = "load_model"
    /\ modelLoaded' = TRUE
    /\ pc' = "check_audio"
    /\ UNCHANGED <<header, audio, recognizerCreated, fed, results, produced,
                   acceptError, progress, outputs, exitStatus>>

\* lines 37-40
CheckAudio ==
    /\ pc = "check_audio"
    /\ \E exists \in BOOLEAN :
          IF exists
          THEN pc' = "open_audio" /\ UNCHANGED exitStatus
          ELSE pc' = "exit1" /\ exitStatus' = "exit1"
    /\ UNCHANGED <<header, audio, engine, progress, outputs>>

\* lines 43-49
OpenAudio ==
    /\ pc = "open_audio"
    /\ \E ok \in BOOLEAN :
          IF ok
          THEN wf' = "open" /\ pc' = "validate" /\ UNCHANGED exitStatus
          ELSE wf' = wf /\ pc' = "exit1" /\ exitStatus' = "exit1"
    /\ UNCHANGED <<header, closeCount, soundpos, data, reads, engine, progress,
                   outputs>>

\* lines 52-56
Validate ==
    /\ pc = "validate"
    /\ IF ValidFormat(nchannels, sampwidth, framerate)
       THEN pc' = "init_recognizer" /\ UNCHANGED exitStatus
       ELSE pc' = "exit1" /\ exitStatus' = "exit1"
    /\ UNCHANGED <<header, audio, engine, progress, outputs>>

\* lines 59-86: recognizer, counters, empty result list, progress task
InitRecognizer ==
    /\ pc = "init_recognizer"
    /\ recognizerCreated' = TRUE
    /\ total_frames' = nframes
    /\ frames_processed' = 0
    /\ completed' = 0
    /\ results' = <<>>
    /\ pc' = "read"
    /\ UNCHANGED <<header, audio, modelLoaded, fed, produced, acceptError,
                   outputs, exitStatus>>

\* line 90: the loop's exit test
EndOfStream(chunk) == chunk.len = 0

\* lines 88-91
ReadFrames ==
    /\ pc = "read"
    /\ LET chunk == readframes(soundpos, chunk_size,
                               FrameSize(nchannels, sampwidth),
                               nframes * FrameSize(nchannels, sampwidth))
       IN /\ data' = chunk
          /\ soundpos' = soundpos + chunk.len
          /\ reads' = Append(reads, chunk)
          /\ frames_processed' = frames_processed + chunk.len
          /\ pc' = IF EndOfStream(chunk) THEN "final" ELSE "accept"
    /\ UNCHANGED <<header, wf, closeCount, engine, total_frames, completed,
                   outputs, exitStatus>>

\* line 92, AcceptWaveform raises: the exception leaves the with block and
\* transcribe_audio, and ends the script
AcceptRaisesSwallowed ==
    /\ pc = "accept"
    /\ fed' = Append(fed, data)
    /\ acceptError' = TRUE
    /\ pc' = "progress"
    /\ UNCHANGED <<header, audio, modelLoaded, recognizerCreated, results,
                   produced, progress, outputs, exitStatus>>
AcceptRaises ==
    /\ pc = "accept"
    /\ fed' = Append(fed, data)
    /\ acceptError' = TRUE
    /\ pc' = "crashed"
    /\ exitStatus' = "exception"
    /\ UNCHANGED <<header, audio, modelLoaded, recognizerCreated, results,
                   produced, progress, outputs>>

\* line 92, AcceptWaveform returns False
AcceptNoBoundary ==
    /\ pc = "accept"
    /\ fed' = Append(fed, data)
    /\ pc' = "progress"
    /\ UNCHANGED <<header, audio, modelLoaded, recognizerCreated, results,
                   produced, acceptError, progress, outputs, exitStatus>>

\* lines 92-94, AcceptWaveform returns True: Result() is stored
AcceptBoundary ==
    /\ pc = "accept"
    /\ fed' = Append(fed, data)
    /\ \E out \in RecognizerOutputs :
          results' = StoreResult(results,
                         [kind |-> "partial", serial |-> produced + 1,
                          hasText |-> out.hasText, text |-> out.text])
    /\ produced' = produced + 1
    /\ pc' = "progress"
    /\ UNCHANGED <<header, audio, modelLoaded, recognizerCreated, acceptError,
                   progress, outputs, exitStatus>>

\* lines 96-111
UpdateProgress ==
    /\ pc = "progress"
    /\ completed' = completed + data.len
    /\ pc' = "read"
    /\ UNCHANGED <<header, audio, engine, total_frames, frames_processed,
                   outputs, exitStatus>>

\* lines 113-115
FinalResult ==
    /\ pc = "final"
    /\ \E out \in RecognizerOutputs :
          results' = StoreResult(results,
                         [kind |-> "final", serial |-> produced + 1,
                          hasText |-> out.hasText, text |-> out.text])
    /\ produced' = produced + 1
    /\ pc' = "close"
    /\ UNCHANGED <<header, audio, modelLoaded, recognizerCreated, fed,
                   acceptError, progress, outputs, exitStatus>>

\* lines 117-120
CloseAudio ==
    /\ pc = "close"
    /\ wf' = "closed"
    /\ closeCount' = closeCount + 1
    /\ pc' = "write_json"
    /\ UNCHANGED <<header, soundpos, data, reads, engine, progress, outputs,
                   exitStatus>>

\* lines 124-128 and, when the open or the dump raises, 136-137
WriteJson ==
    /\ pc = "write_json"
    /\ jsonAttempted' = TRUE
    /\ \E outcome \in {"ok", "open_fails", "dump_fails"} :
          \/ /\ outcome = "ok"
             /\ jsonFile' = [status |-> "written", content |-> JsonDump(results)]
             /\ pc' = "write_txt"
             /\ UNCHANGED saveErrors
          \/ /\ outcome = "open_fails"
             /\ jsonFile' = jsonFile
             /\ saveErrors' = saveErrors + 1
             /\ pc' = "display"
          \/ /\ outcome = "dump_fails"
             /\ jsonFile' = [status |-> "partial", content |-> <<>>]
             /\ saveErrors' = saveErrors + 1
             /\ pc' = "display"
    /\ UNCHANGED <<header, audio, engine, progress, txtFile, txtAttempted,
                   exitStatus>>

\* lines 130-135 and, when the open or a write raises, 136-137
WriteTxt ==
    /\ pc = "write_txt"
    /\ txtAttempted' = TRUE
    /\ \E outcome \in {"ok", "open_fails", "write_fails"} :
          \/ /\ outcome = "ok"
             /\ txtFile' = [status |-> "written", content |-> TxtContent(results)]
             /\ UNCHANGED saveErrors
          \/ /\ outcome = "open_fails"
             /\ txtFile' = txtFile
             /\ saveErrors' = saveErrors + 1
          \/ /\ outcome = "write_fails"
             /\ txtFile' = [status |-> "partial", content |-> <<>>]
             /\ saveErrors' = saveErrors + 1
    /\ pc' = "display"
    /\ UNCHANGED <<header, audio, engine, progress, jsonFile, jsonAttempted,
                   exitStatus>>

\* lines 139-143 and 163-164: print the texts, wait for Enter, exit 0
Display ==
    /\ pc = "display"
    /\ pc' = "done"
    /\ exitStatus' = "exit0"
    /\ UNCHANGED <<header, audio, engine, progress, outputs>>

Next ==
    \/ PromptAudio
    \/ CheckModel
    \/ LoadModel
    \/ CheckAudio
    \/ OpenAudio
    \/ Validate
    \/ InitRecognizer
    \/ ReadFrames
    \/ AcceptRaises
    \/ AcceptNoBoundary
    \/ AcceptBoundary
    \/ UpdateProgress
    \/ FinalResult
    \/ CloseAudio
    \/ WriteJson
    \/ WriteTxt
    \/ Display

Spec == Init /\ [][Next]_vars

\* ---- vocabulary of the properties ----

Terminal == pc \in {"done", "exit1", "crashed"}
AfterLoop == pc \in {"final", "close", "write_json", "write_txt", "display", "done"}
AfterFinal == pc \in {"close", "write_json", "write_txt", "display", "done"}
Saved == pc \in {"display", "done"}
FinalIndexes == {i \in 1..Len(results) : results[i].kind = "final"}
DataBytes == nframes * nchannels * sampwidth
BadFormat == nchannels # 1 \/ sampwidth # 2 \/ framerate \notin {8000, 16000}
NonEmpty(chunk) == chunk.len > 0

\* reading output.txt back: the lines of a text, each ended by a newline
RECURSIVE SplitLines(_, _)
SplitLines(s, cur) ==
    IF s = <<>> THEN (IF cur = <<>> THEN <<>> ELSE <<cur>>)
    ELSE IF Head(s) = NL THEN <<cur>> \o SplitLines(Tail(s), <<>>)
    ELSE SplitLines(Tail(s), Append(cur, Head(s)))
Lines(content) == SplitLines(content, <<>>)

\* reading output.json back: the text fields of the objects that have one
RECURSIVE TextsOf(_)
TextsOf(objs) ==
    IF objs = <<>> THEN <<>>
    ELSE (IF Head(objs).hasText THEN <<Head(objs).text>> ELSE <<>>)
             \o TextsOf(Tail(objs))

TypeOK ==
    /\ pc \in {"prompt", "check_model", "load_model", "check_audio",
               "open_audio", "validate", "init_recognizer", "read", "accept",
               "progress", "final", "close", "write_json", "write_txt",
               "display", "done", "exit1", "crashed"}
    /\ wf \in {"none", "open", "closed"}
    /\ exitStatus \in {"running", "exit0", "exit1", "exception"}
    /\ soundpos \in 0..(nframes * FrameSize(nchannels, sampwidth))

\* ---- C1 ----
\* C1: the result list never holds more than one final result; a final
\* result is the last element and is only there after a read returned zero
\* bytes; once the loop and FinalResult are past, it is there; and the
\* results stand in the order the recognizer produced them, none missing.
C1_OneFinalLast ==
    /\ Cardinality(FinalIndexes) <= 1
    /\ FinalIndexes # {} =>
          /\ FinalIndexes = {Len(results)}
          /\ reads # <<>>
          /\ reads[Len(reads)].len = 0
    /\ AfterFinal => FinalIndexes # {}
    /\ \A i \in 1..Len(results) : results[i].serial = i
C1_Witness ==
    /\ pc = "done"
    /\ Len(results) >= 3
    /\ results[Len(results)].kind = "final"

\* ---- C2 ----
\* C2: whenever the script has ended after a successful wave.open, the
\* handle is closed and close was called exactly once.
C2_ClosedOnEveryExit ==
    (Terminal /\ wf # "none") => (wf = "closed" /\ closeCount = 1)

\* ---- C3 ----
\* C3: once the saving step is over, both writes were attempted, whatever
\* the outcome of the other one, every failure was reported, and the run
\* goes on to its normal end.
C3_WritesIndependent ==
    Saved =>
       /\ jsonAttempted
       /\ txtAttempted
       /\ (jsonFile.status # "written" \/ txtFile.status # "written") => saveErrors >= 1
       /\ exitStatus \in {"running", "exit0"}

\* ---- C4 ----
\* C4 as stated: every chunk passed to the recognizer is 4000 bytes, except
\* possibly the last chunk of the stream, and none is larger.
C4_ChunksAre4000Bytes ==
    \A i \in 1..Len(fed) :
       /\ fed[i].len <= chunk_size
       /\ fed[i].len < chunk_size => (i = Len(fed) /\ fed[i].start + fed[i].len = DataBytes)
\* C4 amended: every chunk passed to the recognizer is 4000 frames, that is
\* 8000 bytes of mono 16-bit PCM, except possibly the last chunk of the
\* stream, which may be shorter; none is larger than 8000 bytes or empty.
C4_ChunksAre4000Frames ==
    \A i \in 1..Len(fed) :
       /\ fed[i].len > 0
       /\ fed[i].len <= 2 * chunk_size
       /\ fed[i].len < 2 * chunk_size => (i = Len(fed) /\ fed[i].start + fed[i].len = DataBytes)
C4_Witness ==
    /\ pc = "done"
    /\ Len(fed) >= 2
    /\ fed[1].len = 2 * chunk_size
    /\ fed[Len(fed)].len < 2 * chunk_size

\* ---- C5 ----
\* C5: the chunks read are consecutive slices of the stream from offset 0,
\* the chunks fed are exactly the non-empty chunks read, each once and in
\* order (the one just read is fed next), and when the loop has ended on a
\* zero-byte read the chunks add up to the byte length of the stream.
C5_ChunksPartitionStream ==
    /\ \A i \in 1..Len(reads) :
          reads[i].start = (IF i = 1 THEN 0 ELSE reads[i - 1].start + reads[i - 1].len)
    /\ fed = (IF pc = "accept"
              THEN SubSeq(reads, 1, Len(reads) - 1)
              ELSE SelectSeq(reads, NonEmpty))
    /\ AfterLoop =>
          /\ reads[Len(reads)].len = 0
          /\ reads[Len(reads)].start = DataBytes
          /\ \A i \in 1..(Len(reads) - 1) : reads[i].len > 0
C5_Witness ==
    /\ pc = "close"
    /\ Len(fed) = MaxChunks
    /\ Len(reads) = MaxChunks + 1
    /\ fed[Len(fed)].start + fed[Len(fed)].len = DataBytes

\* ---- C6 ----
\* C6: for a file that is not mono, not 16-bit or not at 8000/16000 Hz, no
\* chunk is ever read, the recognizer is never created, neither output file
\* is touched, the script never gets past the validation, and it ends with
\* exit status 1.
C6_BadFormatRejected ==
    BadFormat =>
       /\ reads = <<>>
       /\ soundpos = 0
       /\ ~recognizerCreated
       /\ jsonFile = Untouched /\ txtFile = Untouched
       /\ ~jsonAttempted /\ ~txtAttempted
       /\ pc \in {"prompt", "check_model", "load_model", "check_audio",
                  "open_audio", "validate", "exit1"}
       /\ Terminal => exitStatus = "exit1"
C6_Witness ==
    /\ BadFormat
    /\ wf = "open"
    /\ pc = "exit1"
    /\ nframes > 0

\* ---- C7 ----
\* C7: once AcceptWaveform has raised, the script has ended with the
\* exception: the failing chunk was passed once, it is the last chunk read,
\* no final result was requested and neither output file was written.
C7_AcceptErrorIsFatal ==
    acceptError =>
       /\ pc = "crashed"
       /\ exitStatus = "exception"
       /\ Len(fed) = Len(reads)
       /\ fed[Len(fed)] = data
       /\ \A i \in 1..(Len(fed) - 1) : fed[i] # data
       /\ FinalIndexes = {}
       /\ produced = Len(results)
       /\ jsonFile = Untouched /\ txtFile = Untouched
       /\ ~jsonAttempted /\ ~txtAttempted
C7_Witness ==
    /\ acceptError
    /\ pc = "crashed"
    /\ Len(fed) >= 2
    /\ results # <<>>
    /\ soundpos < DataBytes

\* ---- C8 ----
\* C8: for a valid stream of 0 frames the only read returns zero bytes,
\* AcceptWaveform is never called, the result list is the single final
\* result, and at the end of a run without write errors output.json holds
\* that one record and output.txt holds its text line (nothing when the
\* record has no text field).
C8_EmptyStream ==
    (nframes = 0 /\ ~BadFormat) =>
       /\ fed = <<>>
       /\ Len(reads) <= 1
       /\ reads # <<>> => reads[1].len = 0
       /\ AfterFinal => (Len(results) = 1 /\ results[1].kind = "final")
       /\ (pc = "done" /\ saveErrors = 0) =>
             /\ jsonFile.status = "written"
             /\ Len(jsonFile.content) = 1
             /\ jsonFile.content[1].text = results[1].text
             /\ jsonFile.content[1].hasText = results[1].hasText
             /\ txtFile.status = "written"
             /\ txtFile.content =
                   (IF results[1].hasText THEN results[1].text \o <<NL>> ELSE <<>>)
C8_Witness ==
    /\ nframes = 0
    /\ pc = "done"
    /\ jsonFile.status = "written"
    /\ txtFile.status = "written"
    /\ txtFile.content = <<NL>>

\* ---- C9 ----
\* C9: after a run in which both writes succeeded, the lines of output.txt
\* are the text fields of the objects of output.json that have one, in
\* array order: no line for an object without the field, a blank line for
\* an empty text, and no other line.
C9_TextLinesMatchJson ==
    (pc = "done" /\ jsonFile.status = "written" /\ txtFile.status = "written") =>
       Lines(txtFile.content) = TextsOf(jsonFile.content)
C9_Witness ==
    /\ pc = "done"
    /\ jsonFile.status = "written"
    /\ txtFile.status = "written"
    /\ \E i, j, k \in 1..Len(jsonFile.content) :
          /\ ~jsonFile.content[i].hasText
          /\ jsonFile.content[j].hasText /\ jsonFile.content[j].text = <<>>
          /\ jsonFile.content[k].hasText /\ jsonFile.content[k].text # <<>>

\* ---- C10 ----
\* C10: in the feed loop the amount reported as processed (frames_processed
\* and the progress task's completed amount) never exceeds the reported
\* total, and frames_processed equals the total once the stream is
\* exhausted.
C10_ProcessedWithinTotal ==
    recognizerCreated =>
       /\ frames_processed <= total_frames
       /\ completed <= total_frames
       /\ AfterLoop => frames_processed = total_frames
====
